---- MODULE Spec2Model ----
(***************************************************************************)
(* FissureEngine: the registry of timed fissures rebuilt from the world    *)
(* state feed, its bounded update log, and the reset schedule derived from *)
(* the registry.  Times are epoch seconds; the feed carries epoch          *)
(* milliseconds.                                                           *)
(***************************************************************************)
EXTENDS Integers, Sequences, FiniteSets, TLC

VARIABLES fissure_lists,      \* self.fissure_lists: category -> list of Fissure
          update_log,         \* self.update_log: deque of <<timestamp, new_fissures>>
          last_update,        \* self.last_update: None or a timestamp
          pc,                 \* per poller: position in build_fissure_list
          old_fissure_lists,  \* per poller: the local old_fissure_lists
          now,                \* the wall clock read by datetime.now()
          builds,             \* number of build_fissure_list calls started
          reply,              \* outcome of the last completed call
          last_build,         \* history: outcome of the last completed build_fissure_list
          last_good,          \* history: registry produced by the last successful rebuild
          logged,             \* history: every entry ever appended to update_log
          episode,            \* history: the calls in flight together, and the registry
                              \* as it stood when the first of them started
          client              \* a polling client: its next ts, what it has received, and
                              \* (history) how many entries were logged at its last call

vars == <<fissure_lists, update_log, last_update, pc, old_fissure_lists,
          now, builds, reply, last_build, last_good, logged, episode, client>>

(***************************************************************************)
(* Bounds of the model.                                                    *)
(***************************************************************************)
MaxFeed == 2          \* entries per world state document (Spec)
MaxBuilds == 2        \* build_fissure_list calls (Spec)
MaxTime == 1          \* clock ticks (Spec)
MaxLogBuilds == 12    \* build_fissure_list calls (SpecLog)
MaxLogTime == 1       \* clock ticks (SpecLog)
MaxPartialFeed == 4   \* entries per world state document (SpecPartial)
MaxQueryFeed == 3     \* entries per world state document (SpecQuery)
MaxOverlapFeed == 2   \* entries per world state document (SpecOverlap)
MaxOverlapBuilds == 3 \* build_fissure_list calls (SpecOverlap)
MaxClientBuilds == 12 \* build_fissure_list calls (SpecClient)

(***************************************************************************)
(* Class constants.                                                        *)
(***************************************************************************)
FISSURE_TYPE_VOID_STORMS == "Void Storms"
FISSURE_TYPE_STEEL_PATH == "Steel Path"
FISSURE_TYPE_NORMAL == "Normal"
FISSURE_TYPES == <<FISSURE_TYPE_VOID_STORMS, FISSURE_TYPE_STEEL_PATH, FISSURE_TYPE_NORMAL>>
DISPLAY_TYPE_DISCORD == "Discord"
DISPLAY_TYPE_TIME_LEFT == "Time Left"
ERA_LITH == "Lith"
ERA_MESO == "Meso"
ERA_NEO == "Neo"
ERA_AXI == "Axi"
ERA_REQUIEM == "Requiem"
ERA_LIST == <<ERA_LITH, ERA_MESO, ERA_NEO, ERA_AXI, ERA_REQUIEM>>
ERA_LIST_VOID_STORMS == <<ERA_LITH, ERA_MESO, ERA_NEO, ERA_AXI>>
MAX_STORED_UPDATES == 10
MARGIN_SECONDS == 180       \* timedelta(minutes=3)
MS_PER_SECOND == 1000       \* the // 1000 of get_expiry_datetime
None == -1                  \* Python's None where a timestamp is expected
NoEraList == <<"None">>     \* Python's None where an era list is expected

Categories == {FISSURE_TYPES[i] : i \in 1..Len(FISSURE_TYPES)}
Pollers == {1, 2}

(***************************************************************************)
(* Sequence helpers.                                                       *)
(***************************************************************************)
Range(s) == {s[i] : i \in 1..Len(s)}

RECURSIVE Flatten(_)
Flatten(ss) == IF ss = <<>> THEN <<>> ELSE Head(ss) \o Flatten(Tail(ss))

\* The items of s at the positions in S, in the order of s.
RECURSIVE Pick(_, _)
Pick(s, S) ==
    IF s = <<>> THEN <<>>
    ELSE Pick(SubSeq(s, 1, Len(s) - 1), S) \o (IF Len(s) \in S THEN <<s[Len(s)]>> ELSE <<>>)

Count(s, x) == Cardinality({i \in 1..Len(s) : s[i] = x})

(***************************************************************************)
(* Reference data of fissure_engine.common (sol_nodes, fissure_parser,     *)
(* SORT_ORDER).  A small table with one node of each shape the resolver    *)
(* distinguishes.                                                          *)
(***************************************************************************)
sol_nodes ==
    [SolNode1 |-> [node |-> "Hepit", planet |-> "Void", type |-> "Capture",
                   tileset |-> "Orokin Tower", enemy |-> "Orokin"],
     SolNode2 |-> [node |-> "Ukko", planet |-> "Void", type |-> "Capture",
                   tileset |-> "Orokin Tower", enemy |-> "Orokin"],
     CrewBattleNode1 |-> [node |-> "Sover Strait", planet |-> "Earth Proxima",
                          type |-> "Skirmish", enemy |-> "Grineer"],
     SolNode3 |-> [node |-> "Kelpie", planet |-> "Sedna", type |-> "Arena",
                   tileset |-> "Grineer Galleon", enemy |-> "Grineer"],
     SolNode4 |-> [node |-> "Mot", planet |-> "Void", type |-> "Survival",
                   tileset |-> "Orokin Tower", enemy |-> "Orokin"]]

mission_overrides == [SolNode2 |-> "Exterminate"]

era_table == [VoidT1 |-> ERA_LITH, VoidT2 |-> ERA_MESO, VoidT3 |-> ERA_NEO,
              VoidT4 |-> ERA_AXI, VoidT5 |-> ERA_REQUIEM]

tier_table == [Capture |-> 1, Exterminate |-> 1, Survival |-> 2, Skirmish |-> 3]

era_key == [t \in Categories |->
               IF t = FISSURE_TYPE_VOID_STORMS THEN "ActiveMissionTier" ELSE "Modifier"]

SORT_ORDER == [e \in Range(ERA_LIST) |-> CHOOSE i \in 1..Len(ERA_LIST) : ERA_LIST[i] = e]

(***************************************************************************)
(* Entity builder.  A raw feed entry is a function from the field names it *)
(* carries to their values; a lookup of an absent key raises KeyError.     *)
(***************************************************************************)
Fissure(node, mission, planet, tileset, enemy, era, tier, expiry, fissure_type) ==
    [node |-> node, mission |-> mission, planet |-> planet, tileset |-> tileset,
     enemy |-> enemy, era |-> era, tier |-> tier, expiry |-> expiry,
     fissure_type |-> fissure_type]

classify_fissure_type_hard_first(fissure) ==
    IF "Hard" \in DOMAIN fissure THEN FISSURE_TYPE_STEEL_PATH
    ELSE IF "ActiveMissionTier" \in DOMAIN fissure THEN FISSURE_TYPE_VOID_STORMS
    ELSE FISSURE_TYPE_NORMAL

classify_fissure_type(fissure) ==
    IF "ActiveMissionTier" \in DOMAIN fissure THEN FISSURE_TYPE_VOID_STORMS
    ELSE IF "Hard" \in DOMAIN fissure THEN FISSURE_TYPE_STEEL_PATH
    ELSE FISSURE_TYPE_NORMAL

get_expiry_datetime_raises(fissure) == "Expiry" \notin DOMAIN fissure

get_expiry_datetime(fissure) == fissure.Expiry.date.numberLong \div MS_PER_SECOND

get_node_data_raises(node_name) == node_name \notin DOMAIN sol_nodes

\* <<mission, location, planet, tileset, enemy>>
get_node_data(node_name) ==
    LET node == sol_nodes[node_name]
        mission == IF node_name \in DOMAIN mission_overrides
                   THEN mission_overrides[node_name]
                   ELSE node.type
        tileset == IF "tileset" \notin DOMAIN node THEN "Space" ELSE node.tileset
    IN  <<mission, node.node, node.planet, tileset, node.enemy>>

get_fissure_data_raises(fissure, fissure_type, mission) ==
    \/ era_key[fissure_type] \notin DOMAIN fissure
    \/ fissure[era_key[fissure_type]] \notin DOMAIN era_table
    \/ mission \notin DOMAIN tier_table

\* <<era, tier>>
get_fissure_data(fissure, fissure_type, mission) ==
    <<era_table[fissure[era_key[fissure_type]]], tier_table[mission]>>

\* One iteration of the loop of build_fissure_list raises before add_fissure.
entry_raises(fissure) ==
    \/ get_expiry_datetime_raises(fissure)
    \/ "Node" \notin DOMAIN fissure
    \/ get_node_data_raises(fissure.Node)
    \/ get_fissure_data_raises(fissure, classify_fissure_type(fissure),
                               get_node_data(fissure.Node)[1])

\* The Fissure one iteration of the loop constructs.
build_entity(fissure) ==
    LET fissure_type == classify_fissure_type(fissure)
        expiry == get_expiry_datetime(fissure)
        nd == get_node_data(fissure.Node)
        ft == get_fissure_data(fissure, fissure_type, nd[1])
    IN  Fissure(nd[2], nd[1], nd[3], nd[4], nd[5], ft[1], ft[2], expiry, fissure_type)

add_fissure(lists, fissure, fissure_type) ==
    [lists EXCEPT ![fissure_type] = Append(@, fissure)]

clear_fissure_lists(lists) == [t \in DOMAIN lists |-> <<>>]

\* The for loop over the feed entries: the lists reached and whether it raised.
RECURSIVE build_loop(_, _)
build_loop(lists, entries) ==
    IF entries = <<>> THEN [lists |-> lists, raised |-> FALSE]
    ELSE IF entry_raises(Head(entries)) THEN [lists |-> lists, raised |-> TRUE]
    ELSE LET f == build_entity(Head(entries))
         IN  build_loop(add_fissure(lists, f, f.fissure_type), Tail(entries))

(***************************************************************************)
(* list.sort(key=lambda fissure: (SORT_ORDER[fissure.era], fissure.expiry)) *)
(* is stable: entries with equal keys keep their order.                    *)
(***************************************************************************)
sort_key_le_alphabetical(a, b) ==
    LET alpha == [e \in Range(ERA_LIST) |->
                     CASE e = ERA_AXI -> 1 [] e = ERA_LITH -> 2 [] e = ERA_MESO -> 3
                       [] e = ERA_NEO -> 4 [] e = ERA_REQUIEM -> 5]
    IN  \/ alpha[a.era] < alpha[b.era]
        \/ alpha[a.era] = alpha[b.era] /\ a.expiry <= b.expiry

sort_key_le(a, b) ==
    \/ SORT_ORDER[a.era] < SORT_ORDER[b.era]
    \/ SORT_ORDER[a.era] = SORT_ORDER[b.era] /\ a.expiry <= b.expiry

sort_insert(sorted, x) ==
    LET k == Cardinality({i \in 1..Len(sorted) : sort_key_le(sorted[i], x)})
    IN  SubSeq(sorted, 1, k) \o <<x>> \o SubSeq(sorted, k + 1, Len(sorted))

RECURSIVE sort_from(_, _)
sort_from(sorted, rest) ==
    IF rest = <<>> THEN sorted ELSE sort_from(sort_insert(sorted, Head(rest)), Tail(rest))

sort(list) == sort_from(<<>>, list)

sort_fissure_lists(lists) == [t \in DOMAIN lists |-> sort(lists[t])]

(***************************************************************************)
(* The tail of build_fissure_list: the diff against old_fissure_lists, the *)
(* timestamp and the bounded log.                                          *)
(***************************************************************************)
new_fissures_ignoring_expiry(lists, old, lu) ==
    IF lu # None
    THEN LET same(a, b) == [a EXCEPT !.expiry = 0] = [b EXCEPT !.expiry = 0]
             part(t) == LET absent(f) == \A g \in Range(old[t]) : ~same(f, g)
                        IN  SelectSeq(lists[t], absent)
         IN  Flatten([i \in 1..Len(FISSURE_TYPES) |-> part(FISSURE_TYPES[i])])
    ELSE <<>>

new_fissures_without_first_guard(lists, old, lu) ==
    LET part(t) == LET absent(f) == f \notin Range(old[t])
                   IN  SelectSeq(lists[t], absent)
    IN  Flatten([i \in 1..Len(FISSURE_TYPES) |-> part(FISSURE_TYPES[i])])

\* new_fissures: empty while last_update is None, else per category, in the
\* order of the dictionary, the entries of the new list not in the old one.
new_fissures_of(lists, old, lu) ==
    IF lu # None
    THEN LET part(t) == LET absent(f) == f \notin Range(old[t])
                        IN  SelectSeq(lists[t], absent)
         IN  Flatten([i \in 1..Len(FISSURE_TYPES) |-> part(FISSURE_TYPES[i])])
    ELSE <<>>

deque_append_unbounded(log, item) == Append(log, item)

deque_append_drop_newest(log, item) ==
    IF Len(log) < MAX_STORED_UPDATES THEN Append(log, item) ELSE log

\* deque(maxlen=MAX_STORED_UPDATES).append: a full deque drops its leftmost item.
deque_append(log, item) ==
    IF Len(log) < MAX_STORED_UPDATES THEN Append(log, item)
    ELSE Append(Tail(log), item)

update_log_after_always(log, timestamp, new_fissures) ==
    deque_append(log, <<timestamp, new_fissures>>)

\* if new_fissures: self.update_log.append((timestamp, new_fissures))
update_log_after(log, timestamp, new_fissures) ==
    IF new_fissures # <<>> THEN deque_append(log, <<timestamp, new_fissures>>)
    ELSE log

last_update_after_only_on_change(lu, timestamp, new_fissures) ==
    IF new_fissures # <<>> THEN timestamp ELSE lu

\* self.last_update = timestamp
last_update_after(lu, timestamp, new_fissures) == timestamp

(***************************************************************************)
(* get_updates_since                                                       *)
(***************************************************************************)
get_updates_since_inclusive(lu, log, client_timestamp) ==
    LET newer(e) == e[1] >= client_timestamp
        kept == SelectSeq(log, newer)
    IN  <<lu, Flatten([i \in 1..Len(kept) |-> kept[i][2]])>>

\* timestamp > client_timestamp is evaluated once per log entry; a datetime
\* compared with None raises TypeError.
get_updates_since_raises(log, client_timestamp) ==
    client_timestamp = None /\ log # <<>>

get_updates_since(lu, log, client_timestamp) ==
    LET newer(e) == e[1] > client_timestamp
        kept == SelectSeq(log, newer)
    IN  <<lu, Flatten([i \in 1..Len(kept) |-> kept[i][2]])>>

(***************************************************************************)
(* Reset schedule.  A dict is a sequence of <<key, value>> pairs in        *)
(* insertion order; assigning an existing key keeps its position.          *)
(***************************************************************************)
dict_keys(d) == {d[i][1] : i \in 1..Len(d)}

dict_get(d, k) == (CHOOSE i \in 1..Len(d) : d[i][1] = k)

dict_value(d, k) == d[dict_get(d, k)][2]

dict_set(d, k, v) ==
    IF k \in dict_keys(d) THEN [d EXCEPT ![dict_get(d, k)] = <<k, v>>]
    ELSE Append(d, <<k, v>>)

get_era_list(fissure_type) ==
    IF fissure_type = FISSURE_TYPE_VOID_STORMS THEN ERA_LIST_VOID_STORMS ELSE ERA_LIST

\* Length of the run of equal eras at the head of a non-empty list
\* (one group of itertools.groupby).
group_len(fissures) ==
    LET era == Head(fissures).era
        stops == {i \in 1..Len(fissures) : fissures[i].era # era}
    IN  IF stops = {} THEN Len(fissures)
        ELSE (CHOOSE i \in stops : \A j \in stops : i <= j) - 1

group_first_expiry(group) == group[1].expiry

RECURSIVE soonest_expiry_groups(_, _)
soonest_expiry_groups(fissures, acc) ==
    IF fissures = <<>> THEN acc
    ELSE LET n == group_len(fissures)
             group == SubSeq(fissures, 1, n)
         IN  soonest_expiry_groups(SubSeq(fissures, n + 1, Len(fissures)),
                 dict_set(acc, group[1].era, group_first_expiry(group)))

get_soonest_expiry(lists) ==
    [t \in Categories |-> soonest_expiry_groups(lists[t], <<>>)]

\* sorted(group, key=expiry, reverse=True)[0].expiry
group_last_expiry(group) ==
    LET es == {group[i].expiry : i \in 1..Len(group)}
    IN  CHOOSE e \in es : \A x \in es : x <= e

RECURSIVE last_expiry_groups(_, _)
last_expiry_groups(fissures, acc) ==
    IF fissures = <<>> THEN acc
    ELSE LET n == group_len(fissures)
             group == SubSeq(fissures, 1, n)
         IN  last_expiry_groups(SubSeq(fissures, n + 1, Len(fissures)),
                 dict_set(acc, group[1].era, group_last_expiry(group) - MARGIN_SECONDS))

\* era_list = None stands for the default, get_era_list() with no argument.
get_last_expiry(lists, era_list) ==
    LET scope == IF era_list = NoEraList THEN get_era_list(FISSURE_TYPE_NORMAL) ELSE era_list
        in_scope(f) == f.era \in Range(scope)
    IN  [t \in Categories |-> last_expiry_groups(SelectSeq(lists[t], in_scope), <<>>)]

\* The rendered text is a tuple of its parts.
format_time_remaining(expiry, display_type, clock) ==
    IF display_type = DISPLAY_TYPE_TIME_LEFT
    THEN LET time_remaining == expiry - clock
             hours == time_remaining \div 3600
             remainder == time_remaining % 3600
             minutes == remainder \div 60
             unit == IF minutes = 1 THEN "minute" ELSE "minutes"
         IN  IF hours > 0 THEN <<"in", hours, "hour", minutes, unit>>
             ELSE <<"in", minutes, unit>>
    ELSE IF display_type = DISPLAY_TYPE_DISCORD THEN <<"<t:", expiry, ":R>">>
    ELSE <<>>

\* min(d.items(), key=lambda x: x[1]): the first pair holding the least value.
dict_min_item(d) ==
    d[CHOOSE i \in 1..Len(d) :
          /\ \A j \in 1..Len(d) : d[i][2] <= d[j][2]
          /\ \A j \in 1..(i - 1) : d[j][2] > d[i][2]]

\* The two ValueErrors of get_resets: its own, and the one of min() on an
\* empty dictionary.
INVALID_FISSURE_TYPE == "ValueError: Invalid fissure type"
MIN_OF_EMPTY == "ValueError: min() arg is an empty sequence"

get_resets_error_of_min(lists, fissure_type, era_list) == MIN_OF_EMPTY

get_resets_error(lists, fissure_type, era_list) ==
    IF fissure_type \notin Categories THEN INVALID_FISSURE_TYPE ELSE MIN_OF_EMPTY

get_resets_raises(lists, fissure_type, era_list) ==
    \/ fissure_type \notin Categories
    \/ get_last_expiry(lists, era_list)[fissure_type] = <<>>

\* emoji_dict is left at its default None.
get_resets(lists, fissure_type, display_type, era_list, clock) ==
    LET scope == IF era_list = NoEraList THEN get_era_list(FISSURE_TYPE_NORMAL) ELSE era_list
        last_expiries == get_last_expiry(lists, scope)[fissure_type]
        soonest_expiry == dict_min_item(last_expiries)
    IN  <<<<"Next reset is", soonest_expiry[1],
            format_time_remaining(soonest_expiry[2], display_type, clock)>>>>
        \o [i \in 1..Len(last_expiries) |->
               <<last_expiries[i][1],
                 format_time_remaining(last_expiries[i][2], display_type, clock)>>]

(***************************************************************************)
(* get_fissures: kwargs is a sequence of keyword arguments, each a record  *)
(* [attr, kind, value] whose kind tells None, a list (value is a sequence) *)
(* and a single value apart, as isinstance does.                           *)
(***************************************************************************)
_ensure_list(arg) == IF arg.kind = "list" THEN arg.value ELSE <<arg.value>>

_filter_condition_ceiling(fissure, attribute, arg) ==
    IF attribute = "tier"
    THEN \E v \in Range(_ensure_list(arg)) : fissure[attribute] <= v
    ELSE fissure[attribute] \in Range(_ensure_list(arg))

_filter_condition(fissure, attribute, arg) ==
    fissure[attribute] \in Range(_ensure_list(arg))

get_fissures_raises(fissure_type) == fissure_type \notin Categories

get_fissures_error(fissure_type) == INVALID_FISSURE_TYPE

get_fissures_any_condition(lists, fissure_type, kwargs) ==
    LET keep(fissure) == \E i \in 1..Len(kwargs) :
                             kwargs[i].kind # "None"
                                 /\ _filter_condition(fissure, kwargs[i].attr, kwargs[i])
    IN  SelectSeq(lists[fissure_type], keep)

get_fissures(lists, fissure_type, kwargs) ==
    LET keep(fissure) == \A i \in 1..Len(kwargs) :
                             kwargs[i].kind # "None"
                                 => _filter_condition(fissure, kwargs[i].attr, kwargs[i])
    IN  SelectSeq(lists[fissure_type], keep)

(***************************************************************************)
(* The module-level get_fissures of the package, called with fissure_list  *)
(* and resets given.  fissure_list maps a type key to a list of the        *)
(* dictionaries the module-level build_fissure_list appends, resets maps   *)
(* it to a dict from era to reset time; era is None, a string or a list.   *)
(***************************************************************************)
LEGACY_TIER_DEFAULT == 5
LEGACY_TYPE_MODIFIER == 180
LEGACY_TYPE_MODIFIER_VS == 1920

\* The dictionary appended for one fissure.
legacy_fissure(f) ==
    [mission |-> f.mission, location |-> f.node, planet |-> f.planet,
     expiry |-> f.expiry, tier |-> f.tier, era |-> f.era]

\* resets[fissure_type]: per era present the latest expiry minus the type
\* modifier, in the order of SORT_ORDER.
legacy_resets(fissures, type_modifier) ==
    LET present(era) == \E i \in 1..Len(fissures) : fissures[i].era = era
        reset(era) == (CHOOSE e \in {fissures[i].expiry : i \in 1..Len(fissures)} :
                          /\ \E i \in 1..Len(fissures) :
                                 fissures[i].era = era /\ fissures[i].expiry = e
                          /\ \A i \in 1..Len(fissures) :
                                 fissures[i].era = era => fissures[i].expiry <= e)
                      - type_modifier
        eras == SelectSeq(ERA_LIST, present)
    IN  [i \in 1..Len(eras) |-> <<eras[i], reset(eras[i])>>]

\* str.title() on the era names callers write.
legacy_title(x) ==
    CASE x \in {"lith", "Lith", "LITH"} -> "Lith"
      [] x \in {"meso", "Meso", "MESO"} -> "Meso"
      [] x \in {"neo", "Neo", "NEO"} -> "Neo"
      [] x \in {"axi", "Axi", "AXI"} -> "Axi"
      [] x \in {"requiem", "Requiem", "REQUIEM"} -> "Requiem"

\* [era.title()] for a string, [x.title() for x in era] for a list.
legacy_eras(era) ==
    IF era.kind = "str" THEN <<legacy_title(era.value)>>
    ELSE [i \in 1..Len(era.value) |-> legacy_title(era.value[i])]

legacy_filtered_resets(resets, fissure_type, era) ==
    IF era.kind # "None"
    THEN LET kept(item) == item[1] \in Range(legacy_eras(era))
         IN  SelectSeq(resets[fissure_type], kept)
    ELSE resets[fissure_type]

\* KeyError of fissure_list[fissure_type], ValueError of min() on no resets.
legacy_get_fissures_raises(fissure_list, resets, fissure_type, era, tier) ==
    \/ fissure_type \notin DOMAIN fissure_list
    \/ fissure_type \notin DOMAIN resets
    \/ legacy_filtered_resets(resets, fissure_type, era) = <<>>

\* <<fissure_list, resets, min_era, min_reset_time>>
legacy_get_fissures(fissure_list, resets, fissure_type, era, tier) ==
    LET in_era_and_tier(x) == x.era \in Range(legacy_eras(era)) /\ x.tier <= tier
        in_tier(x) == x.tier <= tier
        kept == IF era.kind # "None" THEN SelectSeq(fissure_list[fissure_type], in_era_and_tier)
                ELSE IF tier < LEGACY_TIER_DEFAULT
                     THEN SelectSeq(fissure_list[fissure_type], in_tier)
                     ELSE fissure_list[fissure_type]
        kept_resets == legacy_filtered_resets(resets, fissure_type, era)
        min_item == dict_min_item(kept_resets)
    IN  <<kept, kept_resets, min_item[1], min_item[2]>>

(***************************************************************************)
(* The feed.  get_world_state returns a document with the two arrays       *)
(* ActiveMissions and VoidStorms, or raises once its retries are used up.  *)
(***************************************************************************)
Millis(n) == [date |-> [numberLong |-> n]]

raw_lith == [Node |-> "SolNode1", Expiry |-> Millis(2000000), Modifier |-> "VoidT1"]
raw_lith_same_second == [Node |-> "SolNode1", Expiry |-> Millis(2000999), Modifier |-> "VoidT1"]
raw_lith_later == [Node |-> "SolNode1", Expiry |-> Millis(5000000), Modifier |-> "VoidT1"]
raw_lith_early == [Node |-> "SolNode1", Expiry |-> Millis(1000000), Modifier |-> "VoidT1"]
raw_meso == [Node |-> "SolNode1", Expiry |-> Millis(3000000), Modifier |-> "VoidT2"]
raw_hard_meso == [Node |-> "SolNode2", Expiry |-> Millis(3000000), Modifier |-> "VoidT2",
                  Hard |-> TRUE]
raw_storm_hard_axi == [Node |-> "CrewBattleNode1", Expiry |-> Millis(4000000),
                       ActiveMissionTier |-> "VoidT4", Modifier |-> "VoidT4",
                       Hard |-> TRUE]
raw_survival_lith == [Node |-> "SolNode4", Expiry |-> Millis(5000000), Modifier |-> "VoidT1"]
raw_storm_requiem == [Node |-> "CrewBattleNode1", Expiry |-> Millis(1000000),
                      ActiveMissionTier |-> "VoidT5"]
raw_unknown_node == [Node |-> "SolNode999", Expiry |-> Millis(2000000), Modifier |-> "VoidT1"]
raw_no_expiry == [Node |-> "SolNode1", Modifier |-> "VoidT1"]
raw_unknown_era == [Node |-> "SolNode1", Expiry |-> Millis(2000000), Modifier |-> "VoidT9"]
raw_unknown_tier == [Node |-> "SolNode3", Expiry |-> Millis(2000000), Modifier |-> "VoidT1"]

\* The documents that list at most n missions of the two rosters, each array
\* in the order of its roster.
WorldStates(active, storms, n) ==
    {[ActiveMissions |-> Pick(active, x[1]), VoidStorms |-> Pick(storms, x[2])] :
        x \in {y \in (SUBSET (1..Len(active))) \X (SUBSET (1..Len(storms))) :
                  Cardinality(y[1]) + Cardinality(y[2]) <= n}}

Feeds == WorldStates(<<raw_lith, raw_hard_meso, raw_unknown_node, raw_lith_later>>,
                     <<raw_storm_hard_axi>>, MaxFeed)

LogFeeds == WorldStates(<<raw_lith, raw_lith_later>>, <<>>, 1)
                \ WorldStates(<<>>, <<>>, 0)

PartialFeeds == WorldStates(<<raw_lith_later, raw_meso, raw_lith_same_second, raw_lith_early,
                              raw_unknown_node, raw_no_expiry, raw_unknown_era,
                              raw_unknown_tier>>,
                            <<>>, MaxPartialFeed)

QueryFeeds == WorldStates(<<raw_lith, raw_survival_lith, raw_meso, raw_hard_meso>>,
                          <<raw_storm_hard_axi, raw_storm_requiem>>, MaxQueryFeed)

OverlapFeeds == WorldStates(<<raw_lith, raw_meso>>, <<>>, MaxOverlapFeed)

Entries(ws) == ws.ActiveMissions \o ws.VoidStorms

NoLists == [t \in Categories |-> <<>>]

\* No build_fissure_list call is in flight.
NoEpisode == [base |-> NoLists, overlapped |-> [p \in Pollers |-> FALSE]]

(***************************************************************************)
(* State after FissureEngine().                                            *)
(***************************************************************************)
Init ==
    /\ fissure_lists = NoLists
    /\ update_log = <<>>
    /\ last_update = None
    /\ pc = [p \in Pollers |-> "idle"]
    /\ old_fissure_lists = [p \in Pollers |-> NoLists]
    /\ now = 0
    /\ builds = 0
    /\ reply = [op |-> "none"]
    /\ last_build = [op |-> "none"]
    /\ last_good = NoLists
    /\ logged = <<>>
    /\ episode = NoEpisode
    /\ client = [ts |-> 0, received |-> <<>>, seen |-> 0]

\* The episode once the call of poller p has ended.
episode_after(p) ==
    IF \A q \in Pollers \ {p} : pc[q] = "idle" THEN NoEpisode
    ELSE [episode EXCEPT !.overlapped[p] = FALSE]

(***************************************************************************)
(* build_fissure_list, up to the await: copy the registry, clear it.       *)
(* exclusive: one poll cycle at a time.                                    *)
(***************************************************************************)
build_fissure_list_start(p, cap, exclusive) ==
    /\ pc[p] = "idle"
    /\ builds < cap
    /\ \A q \in Pollers : q < p => pc[q] # "idle"
    /\ exclusive => \A q \in Pollers : pc[q] = "idle"
    /\ old_fissure_lists' = [old_fissure_lists EXCEPT ![p] = fissure_lists]
    /\ fissure_lists' = clear_fissure_lists(fissure_lists)
    /\ pc' = [pc EXCEPT ![p] = "awaiting"]
    /\ builds' = builds + 1
    /\ episode' = IF \A q \in Pollers : pc[q] = "idle"
                  THEN [NoEpisode EXCEPT !.base = fissure_lists]
                  ELSE [episode EXCEPT !.overlapped =
                           [q \in Pollers |-> q = p \/ pc[q] = "awaiting" \/ @[q]]]
    /\ UNCHANGED <<update_log, last_update, now, reply, last_build, last_good, logged,
                   client>>

\* get_world_state raises: the exception leaves build_fissure_list at the await.
build_fissure_list_fetch_failed(p) ==
    /\ pc[p] = "awaiting"
    /\ pc' = [pc EXCEPT ![p] = "idle"]
    /\ reply' = [op |-> "build_fissure_list", poller |-> p, raised |-> TRUE,
                 fetched |-> FALSE]
    /\ last_build' = reply'
    /\ episode' = episode_after(p)
    /\ UNCHANGED <<fissure_lists, update_log, last_update, old_fissure_lists,
                   now, builds, last_good, logged, client>>

\* get_world_state returns ws: the rest of build_fissure_list runs to its end
\* or to the first entry that raises.
build_fissure_list_resume(p, ws) ==
    /\ pc[p] = "awaiting"
    /\ pc' = [pc EXCEPT ![p] = "idle"]
    /\ LET r == build_loop(fissure_lists, Entries(ws))
       IN  IF r.raised
           THEN /\ fissure_lists' = r.lists
                /\ reply' = [op |-> "build_fissure_list", poller |-> p, raised |-> TRUE,
                             fetched |-> TRUE, world_state |-> ws]
                /\ UNCHANGED <<update_log, last_update, last_good, logged>>
           ELSE LET lists == sort_fissure_lists(r.lists)
                    new_fissures == new_fissures_of(lists, old_fissure_lists[p], last_update)
                    timestamp == now
                IN  /\ fissure_lists' = lists
                    /\ last_update' = last_update_after(last_update, timestamp, new_fissures)
                    /\ update_log' = update_log_after(update_log, timestamp, new_fissures)
                    /\ reply' = [op |-> "build_fissure_list", poller |-> p,
                                 raised |-> FALSE, fetched |-> TRUE, world_state |-> ws,
                                 value |-> new_fissures]
                    /\ last_good' = lists
                    /\ logged' = IF new_fissures # <<>>
                                 THEN Append(logged, <<timestamp, new_fissures>>)
                                 ELSE logged
    /\ last_build' = reply'
    /\ episode' = episode_after(p)
    /\ UNCHANGED <<old_fissure_lists, now, builds, client>>

\* Time passes.
tick(cap) ==
    /\ now < cap
    /\ now' = now + 1
    /\ UNCHANGED <<fissure_lists, update_log, last_update, pc, old_fissure_lists,
                   builds, reply, last_build, last_good, logged, episode, client>>

(***************************************************************************)
(* The readers.  They run at any point, also while a rebuild is suspended. *)
(***************************************************************************)
Answer(r) ==
    /\ reply' = r
    /\ UNCHANGED <<fissure_lists, update_log, last_update, pc, old_fissure_lists,
                   now, builds, last_build, last_good, logged, episode, client>>

get_fissures_call(fissure_type, kwargs) ==
    Answer(IF get_fissures_raises(fissure_type)
           THEN [op |-> "get_fissures", fissure_type |-> fissure_type, kwargs |-> kwargs,
                 raised |-> TRUE, error |-> get_fissures_error(fissure_type)]
           ELSE [op |-> "get_fissures", fissure_type |-> fissure_type, kwargs |-> kwargs,
                 raised |-> FALSE,
                 value |-> get_fissures(fissure_lists, fissure_type, kwargs)])

get_updates_since_call(client_timestamp) ==
    Answer([op |-> "get_updates_since", client_timestamp |-> client_timestamp,
            raised |-> FALSE,
            value |-> get_updates_since(last_update, update_log, client_timestamp)])

get_last_expiry_call(era_list) ==
    Answer([op |-> "get_last_expiry", era_list |-> era_list, raised |-> FALSE,
            value |-> get_last_expiry(fissure_lists, era_list)])

\* The module-level get_fissures on the dictionaries of the fissures the
\* registry holds, under the type keys of the module-level functions.
legacy_fissure_list(lists) ==
    LET dicts(t) == [i \in 1..Len(lists[t]) |-> legacy_fissure(lists[t][i])]
    IN  [normal |-> dicts(FISSURE_TYPE_NORMAL), sp |-> dicts(FISSURE_TYPE_STEEL_PATH),
         vs |-> dicts(FISSURE_TYPE_VOID_STORMS)]

legacy_resets_dict(fissure_list) ==
    [t \in DOMAIN fissure_list |->
        legacy_resets(fissure_list[t],
                      IF t # "vs" THEN LEGACY_TYPE_MODIFIER ELSE LEGACY_TYPE_MODIFIER_VS)]

legacy_get_fissures_call(fissure_type, era, tier) ==
    LET fissure_list == legacy_fissure_list(fissure_lists)
        resets == legacy_resets_dict(fissure_list)
    IN  Answer(IF legacy_get_fissures_raises(fissure_list, resets, fissure_type, era, tier)
               THEN [op |-> "legacy_get_fissures", fissure_type |-> fissure_type,
                     era |-> era, tier |-> tier, raised |-> TRUE]
               ELSE [op |-> "legacy_get_fissures", fissure_type |-> fissure_type,
                     era |-> era, tier |-> tier, raised |-> FALSE,
                     value |-> legacy_get_fissures(fissure_list, resets, fissure_type,
                                                   era, tier)])

(***************************************************************************)
(* A client of get_updates_since that passes the last_update it was        *)
(* returned as its next client_timestamp and collects what it is returned. *)
(* A call that raises leaves the client as it was.                         *)
(***************************************************************************)
client_poll ==
    /\ IF get_updates_since_raises(update_log, client.ts)
       THEN /\ reply' = [op |-> "client_poll", client_timestamp |-> client.ts,
                         raised |-> TRUE, error |-> "TypeError"]
            /\ client' = client
       ELSE LET r == get_updates_since(last_update, update_log, client.ts)
            IN  /\ reply' = [op |-> "client_poll", client_timestamp |-> client.ts,
                             raised |-> FALSE, value |-> r]
                /\ client' = [ts |-> r[1], received |-> client.received \o r[2],
                              seen |-> Len(logged)]
    /\ UNCHANGED <<fissure_lists, update_log, last_update, pc, old_fissure_lists,
                   now, builds, last_build, last_good, logged, episode>>

get_soonest_expiry_call ==
    Answer([op |-> "get_soonest_expiry", raised |-> FALSE,
            value |-> get_soonest_expiry(fissure_lists)])

get_resets_call(fissure_type, display_type, era_list) ==
    Answer(IF get_resets_raises(fissure_lists, fissure_type, era_list)
           THEN [op |-> "get_resets", fissure_type |-> fissure_type,
                 display_type |-> display_type, era_list |-> era_list, raised |-> TRUE,
                 error |-> get_resets_error(fissure_lists, fissure_type, era_list)]
           ELSE [op |-> "get_resets", fissure_type |-> fissure_type,
                 display_type |-> display_type, era_list |-> era_list, raised |-> FALSE,
                 value |-> get_resets(fissure_lists, fissure_type, display_type,
                                      era_list, now)])

(***************************************************************************)
(* One engine, one poller, readers in between.                             *)
(***************************************************************************)
Start == \E p \in Pollers : build_fissure_list_start(p, MaxBuilds, TRUE)

FetchFailed == \E p \in Pollers : build_fissure_list_fetch_failed(p)

Resume == \E p \in Pollers : \E ws \in Feeds : build_fissure_list_resume(p, ws)

Tick == tick(MaxTime)

GetFissures == \E t \in Categories : get_fissures_call(t, <<>>)

Next == Start \/ FetchFailed \/ Resume \/ Tick \/ GetFissures

Spec == Init /\ [][Next]_vars

(***************************************************************************)
(* A long run of polls over two documents while the clock runs, to fill    *)
(* the log.                                                                *)
(***************************************************************************)
LogStart == \E p \in Pollers : build_fissure_list_start(p, MaxLogBuilds, TRUE)

LogResume == \E p \in Pollers : \E ws \in LogFeeds : build_fissure_list_resume(p, ws)

LogTick == tick(MaxLogTime)

LogGetUpdatesSince == \E ts \in 0..MaxLogTime : get_updates_since_call(ts)

NextLog == LogStart \/ LogResume \/ LogTick \/ LogGetUpdatesSince

SpecLog == Init /\ [][NextLog]_vars

(***************************************************************************)
(* One poll over longer documents, then the reset schedule is read.        *)
(***************************************************************************)
PartialStart == \E p \in Pollers : build_fissure_list_start(p, 1, TRUE)

PartialFetchFailed == \E p \in Pollers : build_fissure_list_fetch_failed(p)

PartialResume == \E p \in Pollers : \E ws \in PartialFeeds : build_fissure_list_resume(p, ws)

PartialGetFissures == get_fissures_call(FISSURE_TYPE_NORMAL, <<>>)

PartialGetLastExpiry == get_last_expiry_call(NoEraList)

PartialGetResets ==
    \E d \in {DISPLAY_TYPE_DISCORD, DISPLAY_TYPE_TIME_LEFT} :
        get_resets_call(FISSURE_TYPE_NORMAL, d, NoEraList)

NextPartial ==
    \/ PartialStart \/ PartialFetchFailed \/ PartialResume
    \/ PartialGetFissures \/ PartialGetLastExpiry \/ PartialGetResets

SpecPartial == Init /\ [][NextPartial]_vars

(***************************************************************************)
(* One poll over documents of valid entries, then every reader is called   *)
(* with the arguments its callers pass: canonical and other category       *)
(* names, keyword filters, the default and an explicit era list.           *)
(***************************************************************************)
single(attr, value) == [attr |-> attr, kind |-> "single", value |-> value]

list(attr, values) == [attr |-> attr, kind |-> "list", value |-> values]

none(attr) == [attr |-> attr, kind |-> "None", value |-> <<>>]

QueryKwargs ==
    << <<>>,
       <<single("tier", 1)>>,
       <<single("tier", 2)>>,
       <<single("tier", 3)>>,
       <<list("tier", <<1, 2>>)>>,
       <<single("era", ERA_LITH)>>,
       <<list("era", <<ERA_LITH, ERA_MESO>>), single("tier", 1)>>,
       <<list("tier", <<1, 2, 3>>), list("era", <<ERA_LITH, ERA_MESO, ERA_NEO, ERA_AXI>>)>>,
       <<none("era"), single("tier", 2)>>,
       <<single("mission", "Capture"), none("tier")>> >>

QueryTypes == Categories \cup {"normal", "vs"}

QueryEraLists == {NoEraList, ERA_LIST_VOID_STORMS}

QueryStart == \E p \in Pollers : build_fissure_list_start(p, 1, TRUE)

QueryFetchFailed == \E p \in Pollers : build_fissure_list_fetch_failed(p)

QueryResume == \E p \in Pollers : \E ws \in QueryFeeds : build_fissure_list_resume(p, ws)

QueryGetFissures ==
    \E t \in QueryTypes : \E i \in 1..Len(QueryKwargs) : get_fissures_call(t, QueryKwargs[i])

QueryGetLastExpiry == \E era_list \in QueryEraLists : get_last_expiry_call(era_list)

QueryGetSoonestExpiry == get_soonest_expiry_call

QueryGetResets ==
    \E t \in QueryTypes : \E d \in {DISPLAY_TYPE_DISCORD, DISPLAY_TYPE_TIME_LEFT} :
        \E era_list \in QueryEraLists : get_resets_call(t, d, era_list)

LegacyEras ==
    << [kind |-> "None", value |-> <<>>],
       [kind |-> "str", value |-> "lith"],
       [kind |-> "list", value |-> <<"Lith", "meso">>] >>

QueryLegacyGetFissures ==
    \E t \in {"normal", "vs", "Normal"} : \E i \in 1..Len(LegacyEras) :
        \E tier \in {1, 2, LEGACY_TIER_DEFAULT} : legacy_get_fissures_call(t, LegacyEras[i], tier)

NextQuery ==
    \/ QueryStart \/ QueryFetchFailed \/ QueryResume
    \/ QueryGetFissures \/ QueryGetLastExpiry \/ QueryGetSoonestExpiry \/ QueryGetResets
    \/ QueryLegacyGetFissures

SpecQuery == Init /\ [][NextQuery]_vars

(***************************************************************************)
(* Two pollers on one engine: a second build_fissure_list may start while  *)
(* the first is suspended at the await.                                    *)
(***************************************************************************)
OverlapStart == \E p \in Pollers : build_fissure_list_start(p, MaxOverlapBuilds, FALSE)

OverlapResume ==
    \E p \in Pollers : \E ws \in OverlapFeeds : build_fissure_list_resume(p, ws)

OverlapGetFissures == get_fissures_call(FISSURE_TYPE_NORMAL, <<>>)

NextOverlap == OverlapStart \/ OverlapResume \/ OverlapGetFissures

SpecOverlap == Init /\ [][NextOverlap]_vars

(***************************************************************************)
(* A long run of polls with the polling client beside it.  The rebuild     *)
(* timestamps are strictly increasing: the clock moves on once between two *)
(* rebuilds; and no more than MAX_STORED_UPDATES entries are logged        *)
(* between two calls of the client.                                        *)
(***************************************************************************)
ClientStart == \E p \in Pollers : build_fissure_list_start(p, MaxClientBuilds, TRUE)

ClientResume ==
    /\ last_update = None \/ now > last_update
    /\ \E p \in Pollers : \E ws \in LogFeeds : build_fissure_list_resume(p, ws)
    /\ Len(logged') - client.seen <= MAX_STORED_UPDATES

ClientTick == now = last_update /\ tick(MaxClientBuilds)

ClientPoll == client_poll

NextClient == ClientStart \/ ClientResume \/ ClientTick \/ ClientPoll

SpecClient == Init /\ [][NextClient]_vars

(***************************************************************************)
(* Properties.                                                             *)
(***************************************************************************)
BuildOps == {"build_fissure_list"}

\* The step in which poller p's build_fissure_list ends by raising.
BuildRaisedStep(p) ==
    /\ pc[p] = "awaiting" /\ pc'[p] = "idle"
    /\ reply'.op \in BuildOps /\ reply'.raised

\* The step in which poller p's build_fissure_list returns.
BuildReturnedStep(p) ==
    /\ pc[p] = "awaiting" /\ pc'[p] = "idle"
    /\ reply'.op \in BuildOps /\ ~reply'.raised

\* C1: while build_fissure_list is suspended awaiting the feed, every category
\* collection a reader can see is the complete collection of the last
\* successful rebuild, never an empty or partially filled one.
C1_ReadersSeeLastCompleteRegistry ==
    (\E p \in Pollers : pc[p] = "awaiting")
        => \A t \in Categories : fissure_lists[t] = last_good[t]

\* C2: a build_fissure_list that raises leaves fissure_lists, last_update and
\* update_log at the values they had before the call.
C2_FailedRebuildChangesNothing ==
    [][\A p \in Pollers :
          BuildRaisedStep(p) => /\ fissure_lists' = old_fissure_lists[p]
                                /\ last_update' = last_update
                                /\ update_log' = update_log]_vars

\* The entities the loop of build_fissure_list builds from a document.
EntitiesOf(ws) == {build_entity(e) : e \in Range(Entries(ws))}

\* C3: a successful rebuild that directly follows a successful rebuild returns
\* as a set the entities built from its feed that equal, field by field, no
\* entity built from the previous feed; a rebuild that finds last_update None
\* (the first ever) returns the empty list whatever its feed holds.
C3_DiffIsNewFeedMinusPreviousFeed ==
    [][\A p \in Pollers :
          BuildReturnedStep(p) =>
              IF last_update = None THEN reply'.value = <<>>
              ELSE (last_build.op \in BuildOps /\ ~last_build.raised)
                       => Range(reply'.value)
                              = EntitiesOf(reply'.world_state)
                                    \ EntitiesOf(last_build.world_state)]_vars

\* A second rebuild returned a diff that holds a new entity and leaves out an
\* entity its feed shares with the previous feed.
C3_Witness ==
    /\ reply.op \in BuildOps /\ ~reply.raised /\ builds = 2
    /\ \A p \in Pollers : pc[p] = "idle"
    /\ reply.value # <<>>
    /\ \E t \in Categories : \E f \in Range(fissure_lists[t]) :
           /\ f \notin Range(reply.value)
           /\ f \in Range(old_fissure_lists[reply.poller][t])
    /\ \E f \in Range(reply.value) : \E t \in Categories :
           \E g \in Range(old_fissure_lists[reply.poller][t]) :
               [f EXCEPT !.expiry = 0] = [g EXCEPT !.expiry = 0]

\* C4: after a successful rebuild the three unfiltered get_fissures results
\* hold every entity built from the feed exactly once, each in the category
\* of the first matching marker: ActiveMissionTier, else Hard, else Normal.
C4_RebuildPartitionsFeedByFirstMarker ==
    [][\A p \in Pollers :
          BuildReturnedStep(p) =>
              LET entries == Entries(reply'.world_state)
                  results == [t \in Categories |-> get_fissures(fissure_lists', t, <<>>)]
                  first_match(r) ==
                      IF "ActiveMissionTier" \in DOMAIN r THEN "Void Storms"
                      ELSE IF "Hard" \in DOMAIN r THEN "Steel Path"
                      ELSE "Normal"
                  copies(r) == Cardinality({j \in 1..Len(entries) :
                                               build_entity(entries[j]) = build_entity(r)})
              IN  /\ Len(results["Void Storms"]) + Len(results["Steel Path"])
                         + Len(results["Normal"]) = Len(entries)
                  /\ \A i \in 1..Len(entries) :
                         /\ Count(results[first_match(entries[i])],
                                  build_entity(entries[i])) = copies(entries[i])
                         /\ \A t \in Categories \ {first_match(entries[i])} :
                                build_entity(entries[i]) \notin Range(results[t])]_vars

\* A rebuild returned on a feed with an entry carrying both markers and an
\* entry carrying Hard only; a reader then asked for the Void Storms.
C4_Witness ==
    /\ last_build.op \in BuildOps /\ ~last_build.raised
    /\ \A p \in Pollers : pc[p] = "idle"
    /\ \E r \in Range(Entries(last_build.world_state)) :
           "ActiveMissionTier" \in DOMAIN r /\ "Hard" \in DOMAIN r
    /\ \E r \in Range(Entries(last_build.world_state)) :
           "ActiveMissionTier" \notin DOMAIN r /\ "Hard" \in DOMAIN r
    /\ reply.op = "get_fissures" /\ reply.fissure_type = "Void Storms"
    /\ Len(reply.value) = 1 /\ Len(fissure_lists["Steel Path"]) = 1

\* C6: every successful rebuild sets last_update to its timestamp; it appends
\* the one entry <<timestamp, diff>> to update_log when the diff is non-empty
\* and leaves update_log alone when the diff is empty.
C6_LastUpdateAlwaysLogOnlyOnChange ==
    [][\A p \in Pollers :
          BuildReturnedStep(p) =>
              /\ last_update' = now
              /\ IF reply'.value # <<>>
                 THEN LET n == Len(update_log')
                      IN  /\ n >= 1 /\ n <= Len(update_log) + 1
                          /\ update_log'[n] = <<now, reply'.value>>
                          /\ SubSeq(update_log', 1, n - 1)
                                 = SubSeq(update_log, Len(update_log) - n + 2,
                                          Len(update_log))
                 ELSE update_log' = update_log]_vars

\* A second rebuild found nothing new: last_update moved on, the log did not.
C6_Witness ==
    /\ reply.op \in BuildOps /\ ~reply.raised /\ builds = 2
    /\ \A p \in Pollers : pc[p] = "idle"
    /\ reply.value = <<>> /\ update_log = <<>>
    /\ last_update = now /\ now > 0
    /\ \E t \in Categories : fissure_lists[t] # <<>>

\* C5: in every state a reader can observe, each category collection is
\* non-decreasing by (SORT_ORDER rank of era, expiry).
C5_CollectionsSortedByEraRankThenExpiry ==
    \A t \in Categories : \A i \in 1..(Len(fissure_lists[t]) - 1) :
        LET a == fissure_lists[t][i]
            b == fissure_lists[t][i + 1]
        IN  \/ SORT_ORDER[a.era] < SORT_ORDER[b.era]
            \/ SORT_ORDER[a.era] = SORT_ORDER[b.era] /\ a.expiry <= b.expiry

\* The last n items of a sequence.
LastN(s, n) == IF Len(s) <= n THEN s ELSE SubSeq(s, Len(s) - n + 1, Len(s))

\* The diffs of the entries of a log strictly newer than t, in log order.
RECURSIVE DiffsNewerThan(_, _)
DiffsNewerThan(log, t) ==
    IF log = <<>> THEN <<>>
    ELSE (IF Head(log)[1] > t THEN Head(log)[2] ELSE <<>>) \o DiffsNewerThan(Tail(log), t)

\* C7: update_log never holds more than MAX_STORED_UPDATES entries; it is the
\* MAX_STORED_UPDATES most recent of the entries ever logged, the evicted ones
\* carry the oldest timestamps, and get_updates_since(t0) returns entities of
\* those most recent entries only.
C7_LogKeepsTheMostRecentEntries ==
    /\ Len(update_log) <= MAX_STORED_UPDATES
    /\ update_log = LastN(logged, MAX_STORED_UPDATES)
    /\ \A i \in 1..(Len(logged) - MAX_STORED_UPDATES) :
           \A j \in (Len(logged) - MAX_STORED_UPDATES + 1)..Len(logged) :
               logged[i][1] <= logged[j][1]
    /\ reply.op = "get_updates_since"
           => reply.value[2] = DiffsNewerThan(LastN(logged, MAX_STORED_UPDATES),
                                              reply.client_timestamp)

\* More entries were logged than the log holds, and a reader asked for the
\* updates since a time older than the evicted entry: it got the ten retained.
C7_Witness ==
    /\ Len(logged) > MAX_STORED_UPDATES
    /\ reply.op = "get_updates_since"
    /\ logged[1][1] > reply.client_timestamp
    /\ Len(reply.value[2]) = MAX_STORED_UPDATES
    /\ Len(DiffsNewerThan(logged, reply.client_timestamp)) > MAX_STORED_UPDATES

\* C8: get_updates_since(t) returns last_update and the diffs, concatenated in
\* log order, which is the order of the timestamps, of exactly the entries
\* whose timestamp is strictly greater than t.
C8_UpdatesSinceIsStrictlyNewerInLogOrder ==
    reply.op = "get_updates_since" =>
        /\ reply.value[1] = last_update
        /\ reply.value[2] = DiffsNewerThan(update_log, reply.client_timestamp)
        /\ \A i \in 1..Len(update_log) : \A j \in i..Len(update_log) :
               update_log[i][1] <= update_log[j][1]

\* A reader asked for the updates since the very timestamp of a logged entry
\* while a newer entry was logged too: it got the newer one only.
C8_Witness ==
    /\ reply.op = "get_updates_since"
    /\ \E i \in 1..Len(update_log) : update_log[i][1] = reply.client_timestamp
    /\ \E i \in 1..Len(update_log) : update_log[i][1] > reply.client_timestamp
    /\ reply.value[2] # <<>>
    /\ Len(reply.value[2]) < Len(DiffsNewerThan(update_log, None))

\* The expiries of the entities of a category and an era.
ExpiriesOf(t, era) == {fissure_lists[t][i].expiry :
                          i \in {j \in 1..Len(fissure_lists[t]) : fissure_lists[t][j].era = era}}

Maximum(S) == CHOOSE x \in S : \A y \in S : y <= x

Minimum(S) == CHOOSE x \in S : \A y \in S : x <= y

\* C9: for every category and every era in scope with an entity in it,
\* get_last_expiry()[category][era] is the latest expiry of the category's
\* entities of that era minus 3 minutes.
C9_LastExpiryIsLatestMinusMargin ==
    \A t \in Categories : \A era \in Range(ERA_LIST) :
        ExpiriesOf(t, era) # {} =>
            LET d == get_last_expiry(fissure_lists, NoEraList)[t]
            IN  /\ era \in dict_keys(d)
                /\ dict_value(d, era) = Maximum(ExpiriesOf(t, era)) - MARGIN_SECONDS

\* C10: the next-reset entry of get_resets names an era and the timestamp that
\* is the least, over the eras in scope with entities in the category, of the
\* era's latest expiry minus 3 minutes.
C10_NextResetIsEarliestEraReset ==
    \A t \in Categories : \A d \in {DISPLAY_TYPE_DISCORD, DISPLAY_TYPE_TIME_LEFT} :
        ~get_resets_raises(fissure_lists, t, NoEraList) =>
            LET eras == {era \in Range(ERA_LIST) : ExpiriesOf(t, era) # {}}
                reset(era) == Maximum(ExpiriesOf(t, era)) - MARGIN_SECONDS
                least == Minimum({reset(era) : era \in eras})
            IN  \E era \in eras :
                    /\ reset(era) = least
                    /\ get_resets(fissure_lists, t, d, NoEraList, now)[1]
                           = <<"Next reset is", era, format_time_remaining(least, d, now)>>

\* The step in which a reader returns or raises.
ReaderReturns(op) == pc' = pc /\ now' = now /\ reply'.op = op

\* C11: with no era list passed, get_resets for Void Storms answers as it
\* does for the explicit scope Lith, Meso, Neo, Axi, so that no Requiem
\* entity contributes to or appears in its result, and for Normal and Steel
\* Path as it does for the explicit five-era scope.
C11_DefaultEraScopeFollowsCategory ==
    [][(/\ ReaderReturns("get_resets")
        /\ reply'.era_list = NoEraList
        /\ reply'.fissure_type \in Categories) =>
           LET t == reply'.fissure_type
               scope == get_era_list(t)
           IN  /\ reply'.raised = get_resets_raises(fissure_lists, t, scope)
               /\ ~reply'.raised =>
                      reply'.value = get_resets(fissure_lists, t, reply'.display_type,
                                                scope, now)]_vars

\* C12: for every valid category and every registry state, also one where the
\* category holds no entity of an era in scope, get_last_expiry and
\* get_resets return without raising.
C12_ResetsNeverRaiseForValidCategory ==
    [][(\/ ReaderReturns("get_last_expiry")
        \/ ReaderReturns("get_resets") /\ reply'.fissure_type \in Categories)
           => ~reply'.raised]_vars

\* C13: get_fissures and get_resets called with a category string that is
\* none of the three canonical names raise the invalid-category error, return
\* no value, and leave fissure_lists, update_log and last_update unchanged.
C13_InvalidCategoryIsRejected ==
    [][\A op \in {"get_fissures", "get_resets"} :
          (ReaderReturns(op) /\ reply'.fissure_type \notin Categories) =>
              /\ reply'.raised
              /\ reply'.error = INVALID_FISSURE_TYPE
              /\ "value" \notin DOMAIN reply'
              /\ UNCHANGED <<fissure_lists, update_log, last_update>>]_vars

\* get_resets was called with an alias on a filled registry and raised.
C13_Witness ==
    /\ reply.op = "get_resets" /\ reply.fissure_type = "vs"
    /\ reply.raised /\ reply.error = INVALID_FISSURE_TYPE
    /\ last_update # None
    /\ fissure_lists[FISSURE_TYPE_VOID_STORMS] # <<>>

C15_SoonestExpiryPerRelevantEra ==
    [][ReaderReturns("get_soonest_expiry") =>
           \A t \in Categories :
               LET d == reply'.value[t]
               IN  /\ \A era \in Range(get_era_list(t)) :
                          ExpiriesOf(t, era) # {} =>
                              /\ era \in dict_keys(d)
                              /\ dict_value(d, era) = Minimum(ExpiriesOf(t, era))
                   /\ dict_keys(d) \subseteq Range(get_era_list(t))]_vars

\* The keyword arguments of a query other than its tier argument.
OtherThanTier(kw) == LET other(a) == a.attr # "tier" IN SelectSeq(kw, other)

\* The tier argument of a query that passes one as a single value.
SingleTier(kw) == LET tier(a) == a.attr = "tier" /\ a.kind = "single"
                  IN  SelectSeq(kw, tier)

\* C16, as stated: at every call site a tier value t is an inclusive ceiling:
\* FissureEngine.get_fissures with tier=t and the module-level get_fissures
\* with tier=t both return every entity of the category of tier <= t that
\* passes the other filters.
C16_TierIsAnInclusiveCeiling ==
    [][/\ (/\ ReaderReturns("get_fissures")
            /\ reply'.fissure_type \in Categories
            /\ SingleTier(reply'.kwargs) # <<>>) =>
               LET t == SingleTier(reply'.kwargs)[1].value
                   others == get_fissures(fissure_lists, reply'.fissure_type,
                                          OtherThanTier(reply'.kwargs))
                   at_most(f) == f.tier <= t
               IN  reply'.value = SelectSeq(others, at_most)
       /\ (ReaderReturns("legacy_get_fissures") /\ ~reply'.raised) =>
               LET all == legacy_fissure_list(fissure_lists)[reply'.fissure_type]
                   at_most(x) ==
                       /\ x.tier <= reply'.tier
                       /\ reply'.era.kind # "None" => x.era \in Range(legacy_eras(reply'.era))
               IN  reply'.value[1] = SelectSeq(all, at_most)]_vars

\* C16, amended: FissureEngine.get_fissures matches tier like every other
\* attribute: tier=t keeps the entities of tier exactly t, a list of tiers
\* keeps those whose tier is listed, so that tier=[1, 2, 3] as main passes it
\* keeps the tiers up to 3.  Only the module-level get_fissures keeps every
\* entity of tier <= t.
C16_TierIsExactInEngineCeilingInModuleFunction ==
    [][/\ (ReaderReturns("get_fissures") /\ reply'.fissure_type \in Categories) =>
               LET kw == reply'.kwargs
                   others == get_fissures(fissure_lists, reply'.fissure_type,
                                          OtherThanTier(kw))
                   tier_ok(f) ==
                       \A i \in 1..Len(kw) :
                           kw[i].attr = "tier" =>
                               CASE kw[i].kind = "single" -> f.tier = kw[i].value
                                 [] kw[i].kind = "list" ->
                                        \E j \in 1..Len(kw[i].value) : f.tier = kw[i].value[j]
                                 [] OTHER -> TRUE
               IN  reply'.value = SelectSeq(others, tier_ok)
       /\ (ReaderReturns("legacy_get_fissures") /\ ~reply'.raised) =>
               LET all == legacy_fissure_list(fissure_lists)[reply'.fissure_type]
                   at_most(x) ==
                       /\ x.tier <= reply'.tier
                       /\ reply'.era.kind # "None" => x.era \in Range(legacy_eras(reply'.era))
               IN  reply'.value[1] = SelectSeq(all, at_most)]_vars

\* FissureEngine.get_fissures was asked for tier=2 and nothing else in a
\* category that holds a tier 1 and a tier 2 entity: it returned the tier 2
\* entity only.
C16_Witness ==
    /\ reply.op = "get_fissures" /\ ~reply.raised
    /\ Len(reply.kwargs) = 1 /\ reply.kwargs[1].attr = "tier"
    /\ reply.kwargs[1].kind = "single" /\ reply.kwargs[1].value = 2
    /\ reply.value # <<>>
    /\ \A f \in Range(reply.value) : f.tier = 2
    /\ \E f \in Range(fissure_lists[reply.fissure_type]) : f.tier = 1

\* C17: when a build_fissure_list call that overlapped another returns, its
\* diff holds no entity of the registry as it stood before the overlap began;
\* when it is the last of them to return, each category collection holds the
\* entities built from its feed, each exactly once, and nothing else.
C17_OverlappingRebuildsLeaveTheLaterFeed ==
    [][\A p \in Pollers :
          (BuildReturnedStep(p) /\ episode.overlapped[p]) =>
              LET entries == Entries(reply'.world_state)
                  copies(e, t) == Cardinality({j \in 1..Len(entries) :
                                                  /\ build_entity(entries[j]) = e
                                                  /\ e.fissure_type = t})
              IN  /\ \A f \in Range(reply'.value) :
                         \A t \in Categories : f \notin Range(episode.base[t])
                  /\ (\A q \in Pollers : pc'[q] = "idle") =>
                         \A t \in Categories :
                             \A e \in Range(fissure_lists'[t]) \cup EntitiesOf(reply'.world_state) :
                                 Count(fissure_lists'[t], e) = copies(e, t)]_vars

\* C18: with strictly increasing rebuild timestamps and at most
\* MAX_STORED_UPDATES entries logged between two of its calls, every call of
\* the polling client returns, and what the client has received after it is
\* the entities of every diff logged so far, each once, in log order.
C18_PollingClientReceivesEveryLoggedEntityOnce ==
    [][(pc' = pc /\ now' = now /\ reply'.op = "client_poll") =>
           /\ ~reply'.raised
           /\ client'.received = DiffsNewerThan(logged, None)]_vars

\* C19: in every state every update_log entry has a non-empty diff, the
\* timestamps of update_log are non-decreasing from oldest to newest, none
\* is later than last_update, and update_log is empty while last_update is
\* None.
C19_LogEntriesNonEmptyOrderedNotAfterLastUpdate ==
    /\ \A i \in 1..Len(update_log) : update_log[i][2] # <<>>
    /\ \A i \in 1..Len(update_log) : \A j \in i..Len(update_log) :
           update_log[i][1] <= update_log[j][1]
    /\ \A i \in 1..Len(update_log) : update_log[i][1] <= last_update
    /\ last_update = None => update_log = <<>>

\* The log holds entries of two different timestamps and two of the same
\* one, and the last rebuild found nothing new and only set last_update.
C19_Witness ==
    /\ Len(update_log) >= 2
    /\ update_log[1][1] < update_log[Len(update_log)][1]
    /\ \E i \in 1..(Len(update_log) - 1) : update_log[i][1] = update_log[i + 1][1]
    /\ last_build.op \in BuildOps /\ ~last_build.raised /\ last_build.value = <<>>
    /\ last_update = now

====
